---- MODULE Spec2Model ----
(***************************************************************************)
(* schedsim: the discrete-event driver of src/simulator.py and the         *)
(* scheduling policies of src/schedulers.py (PS, FIFO, SRPT, SRPT+PS, FSP, *)
(* FSP+PS, LAS).                                                           *)
(*                                                                         *)
(* Numbers.  The program computes on Python floats.  The model computes on *)
(* exact rationals <<n, d>> (d > 0, lowest terms): times, sizes, shares    *)
(* and remaining work are the reals the floats approximate, so every       *)
(* equality below is an equality of reals.  LAS buckets are integers, as   *)
(* in the code.                                                            *)
(*                                                                         *)
(* Job identifiers are the integers 1..MaxJobs (the workloads of the       *)
(* documentation write A, B, C for 1, 2, 3); Python compares them with <.  *)
(***************************************************************************)
EXTENDS Integers, Sequences, FiniteSets, TLC

(***************************************************************************)
(* Bounds of the model.                                                    *)
(***************************************************************************)
MaxJobs == 2
MaxArrival == 2
MaxSize == 2

(***************************************************************************)
(* Exact rational arithmetic.                                              *)
(***************************************************************************)
RECURSIVE GCD(_, _)
GCD(a, b) == IF b = 0 THEN a ELSE GCD(b, a % b)

Abs(a) == IF a < 0 THEN -a ELSE a

RNorm(n, d) ==
    LET g == GCD(Abs(n), d) IN <<n \div g, d \div g>>

R(n) == <<n, 1>>

RZero == <<0, 1>>

ROne == <<1, 1>>

RAdd(x, y) ==
    LET g == GCD(x[2], y[2]) IN
    RNorm(x[1] * (y[2] \div g) + y[1] * (x[2] \div g), (x[2] \div g) * y[2])

RNeg(x) == <<-x[1], x[2]>>

RSub(x, y) == RAdd(x, RNeg(y))

RMul(x, y) ==
    LET g1 == GCD(Abs(x[1]), y[2])
        g2 == GCD(Abs(y[1]), x[2])
    IN  <<(x[1] \div g1) * (y[1] \div g2), (x[2] \div g2) * (y[2] \div g1)>>

RInv(x) == IF x[1] < 0 THEN <<-x[2], -x[1]>> ELSE <<x[2], x[1]>>

RDiv(x, y) == RMul(x, RInv(y))

RLess(x, y) ==
    LET g == GCD(x[2], y[2]) IN
    x[1] * (y[2] \div g) < y[1] * (x[2] \div g)

RLeq(x, y) == ~RLess(y, x)

\* math.ceil of a rational, as an integer
Ceil(x) == -((-x[1]) \div x[2])

RECURSIVE RSum(_, _)
RSum(f, S) ==
    IF S = {} THEN RZero
    ELSE LET k == CHOOSE k \in S : TRUE IN RAdd(f[k], RSum(f, S \ {k}))

EmptyMap == [k \in {} |-> RZero]

\* d with key k removed / set
MapDel(d, k) == [j \in DOMAIN d \ {k} |-> d[j]]

MapSet(d, k, v) == [j \in DOMAIN d \cup {k} |-> IF j = k THEN v ELSE d[j]]

(***************************************************************************)
(* src/simulator.py: event kinds and the tolerance of the policies.        *)
(***************************************************************************)
ARRIVAL == 0
COMPLETE == 1

\* default eps of SRPT_plus_PS, FSP and LAS
eps == <<1, 1000000>>

Policies == {"PS", "FIFO", "SRPT", "SRPT_plus_PS", "FSP", "FSP_plus_PS", "LAS"}

(***************************************************************************)
(* heapq on lists of [estimated remaining, jobid] items, as used by SRPT   *)
(* and SRPT_plus_PS.  Positions are Python's (0-based); h[p + 1] is the    *)
(* item at position p.                                                     *)
(***************************************************************************)
\* Python's list comparison [r1, j1] < [r2, j2]
ItemLess(x, y) == RLess(x[1], y[1]) \/ (x[1] = y[1] /\ x[2] < y[2])

RECURSIVE siftdown(_, _, _, _)
siftdown(heap, startpos, pos, newitem) ==
    IF pos > startpos /\ ItemLess(newitem, heap[((pos - 1) \div 2) + 1])
    THEN siftdown([heap EXCEPT ![pos + 1] = heap[((pos - 1) \div 2) + 1]],
                  startpos, (pos - 1) \div 2, newitem)
    ELSE [heap EXCEPT ![pos + 1] = newitem]

RECURSIVE siftup_loop(_, _, _, _)
siftup_loop(heap, startpos, pos, newitem) ==
    LET endpos == Len(heap)
        childpos == 2 * pos + 1
        rightpos == childpos + 1
        c == IF rightpos < endpos /\ ~ItemLess(heap[childpos + 1], heap[rightpos + 1])
             THEN rightpos ELSE childpos
    IN  IF childpos < endpos
        THEN siftup_loop([heap EXCEPT ![pos + 1] = heap[c + 1]], startpos, c, newitem)
        ELSE siftdown(heap, startpos, pos, newitem)

siftup(heap, pos) == siftup_loop(heap, pos, pos, heap[pos + 1])

heappush(heap, item) == siftdown(Append(heap, item), 0, Len(heap), item)

\* the heap after heappop (the popped item is heap[1])
heappop(heap) ==
    LET lastelt == heap[Len(heap)]
        rest == SubSeq(heap, 1, Len(heap) - 1)
    IN  IF rest = <<>> THEN rest
        ELSE siftup([rest EXCEPT ![1] = lastelt], 0)

RECURSIVE heapify_from(_, _)
heapify_from(x, i) ==
    IF i < 0 THEN x ELSE heapify_from(siftup(x, i), i - 1)

heapify(x) == heapify_from(x, (Len(x) \div 2) - 1)

\* bisect.insort (insort_right) of item into the sorted list a
RECURSIVE insort_at(_, _, _)
insort_at(a, item, lo) ==
    IF lo <= Len(a) /\ ~ItemLess(item, a[lo])
    THEN insort_at(a, item, lo + 1)
    ELSE SubSeq(a, 1, lo - 1) \o <<item>> \o SubSeq(a, lo, Len(a))

insort(a, item) == insort_at(a, item, 1)

\* a policy method ended in an exception
Raise(s, name) == [s EXCEPT !.exc = name]

SetMin(S) == CHOOSE x \in S : \A y \in S : x <= y

\* {jobid: share for jobid in jobids}
EqualShares(jobids, share) == [j \in jobids |-> share]

(***************************************************************************)
(* class PS                                                                *)
(***************************************************************************)
PS_init == [running |-> {}, exc |-> ""]

PS_enqueue(s, t, jobid, size) == [s EXCEPT !.running = @ \cup {jobid}]

PS_dequeue(s, t, jobid) ==
    IF jobid \in s.running
    THEN [s EXCEPT !.running = @ \ {jobid}]
    ELSE Raise(s, "ValueError")

\* PS_schedule with the share of one more job than present
PS_schedule_off_by_one(s, t) ==
    IF s.running # {}
    THEN [s |-> s,
          alloc |-> EqualShares(s.running, RDiv(ROne, R(Cardinality(s.running) + 1)))]
    ELSE [s |-> s, alloc |-> EmptyMap]

PS_schedule(s, t) ==
    IF s.running # {}
    THEN [s |-> s, alloc |-> EqualShares(s.running, RDiv(ROne, R(Cardinality(s.running))))]
    ELSE [s |-> s, alloc |-> EmptyMap]

(***************************************************************************)
(* class FIFO                                                              *)
(***************************************************************************)
FIFO_init == [jobs |-> <<>>, exc |-> ""]

FIFO_enqueue(s, t, jobid, size) == [s EXCEPT !.jobs = Append(@, jobid)]

\* deque.remove: the first occurrence
FIFO_dequeue(s, t, jobid) ==
    IF \E i \in 1..Len(s.jobs) : s.jobs[i] = jobid
    THEN LET i == SetMin({k \in 1..Len(s.jobs) : s.jobs[k] = jobid})
         IN  [s EXCEPT !.jobs = SubSeq(@, 1, i - 1) \o SubSeq(@, i + 1, Len(@))]
    ELSE Raise(s, "ValueError")

\* FIFO_schedule serving the most recent arrival: jobs[-1]
FIFO_schedule_last(s, t) ==
    IF s.jobs # <<>>
    THEN [s |-> s, alloc |-> EqualShares({s.jobs[Len(s.jobs)]}, ROne)]
    ELSE [s |-> s, alloc |-> EmptyMap]

FIFO_schedule(s, t) ==
    IF s.jobs # <<>>
    THEN [s |-> s, alloc |-> EqualShares({s.jobs[1]}, ROne)]
    ELSE [s |-> s, alloc |-> EmptyMap]

(***************************************************************************)
(* class SRPT                                                              *)
(***************************************************************************)
SRPT_init == [jobs |-> <<>>, last_t |-> RZero, exc |-> ""]

\* SRPT_update that debits every entry of the heap
SRPT_update_all(s, t) ==
    LET delta == RSub(t, s.last_t) IN
    IF delta = RZero THEN s
    ELSE [s EXCEPT !.jobs = [i \in 1..Len(@) |-> <<RSub(@[i][1], delta), @[i][2]>>],
                   !.last_t = t]

SRPT_update(s, t) ==
    LET delta == RSub(t, s.last_t) IN
    IF delta = RZero THEN s
    ELSE [s EXCEPT !.jobs = IF @ # <<>>
                            THEN [@ EXCEPT ![1] = <<RSub(@[1], delta), @[2]>>]
                            ELSE @,
                   !.last_t = t]

\* SRPT_enqueue with jobs.append in place of heappush
SRPT_enqueue_append(s, t, jobid, job_size) ==
    LET u == SRPT_update(s, t) IN
    [u EXCEPT !.jobs = Append(@, <<job_size, jobid>>)]

SRPT_enqueue(s, t, jobid, job_size) ==
    LET u == SRPT_update(s, t) IN
    [u EXCEPT !.jobs = heappush(@, <<job_size, jobid>>)]

\* the removal of a job that is not at the head, lines 88-94 (shared with
\* SRPT_plus_PS, lines 159-165): the generator unpacks each [remaining,
\* jobid] item into i, v and evaluates v[1] on the jobid of the first item,
\* which raises TypeError before any index is found.
remove_not_running(u, jobid) == Raise(u, "TypeError")

SRPT_dequeue(s, t, jobid) ==
    LET u == SRPT_update(s, t) IN
    IF u.jobs = <<>> THEN Raise(u, "IndexError")
    ELSE IF jobid = u.jobs[1][2] THEN [u EXCEPT !.jobs = heappop(@)]
    ELSE remove_not_running(u, jobid)

\* SRPT_schedule that serves the last entry of the heap instead of jobs[0]
SRPT_schedule_last(s, t) ==
    LET u == SRPT_update(s, t) IN
    IF u.jobs # <<>>
    THEN [s |-> u, alloc |-> EqualShares({u.jobs[Len(u.jobs)][2]}, ROne)]
    ELSE [s |-> u, alloc |-> EmptyMap]

SRPT_schedule(s, t) ==
    LET u == SRPT_update(s, t) IN
    IF u.jobs # <<>>
    THEN [s |-> u, alloc |-> EqualShares({u.jobs[1][2]}, ROne)]
    ELSE [s |-> u, alloc |-> EmptyMap]

(***************************************************************************)
(* class SRPT_plus_PS                                                      *)
(***************************************************************************)
SRPT_plus_PS_init == [jobs |-> <<>>, last_t |-> RZero, late |-> {}, exc |-> ""]

\* while jobs and jobs[0][0] < self.eps: heappop, late.add
RECURSIVE SRPT_plus_PS_promote(_)
SRPT_plus_PS_promote(s) ==
    IF s.jobs # <<>> /\ RLess(s.jobs[1][1], eps)
    THEN SRPT_plus_PS_promote([s EXCEPT !.late = @ \cup {s.jobs[1][2]},
                                        !.jobs = heappop(@)])
    ELSE s

\* SRPT_plus_PS_update without the promotion to late (SRPT's update)
SRPT_plus_PS_update_no_promote(s, t) ==
    LET delta == RDiv(RSub(t, s.last_t), R(1 + Cardinality(s.late))) IN
    [s EXCEPT !.jobs = IF @ # <<>>
                       THEN [@ EXCEPT ![1] = <<RSub(@[1], delta), @[2]>>]
                       ELSE @,
              !.last_t = t]

SRPT_plus_PS_update(s, t) ==
    LET delta == RDiv(RSub(t, s.last_t), R(1 + Cardinality(s.late)))
        debited == [s EXCEPT !.jobs = IF @ # <<>>
                                      THEN [@ EXCEPT ![1] = <<RSub(@[1], delta), @[2]>>]
                                      ELSE @]
    IN  [SRPT_plus_PS_promote(debited) EXCEPT !.last_t = t]

SRPT_plus_PS_schedule(s, t) ==
    LET u == SRPT_plus_PS_update(s, t)
        scheduled == u.late \cup (IF u.jobs # <<>> THEN {u.jobs[1][2]} ELSE {})
    IN  IF scheduled = {} THEN [s |-> u, alloc |-> EmptyMap]
        ELSE [s |-> u,
              alloc |-> EqualShares(scheduled, RDiv(ROne, R(Cardinality(scheduled))))]

SRPT_plus_PS_enqueue(s, t, jobid, job_size) ==
    LET u == SRPT_plus_PS_update(s, t) IN
    [u EXCEPT !.jobs = heappush(@, <<job_size, jobid>>)]

SRPT_plus_PS_dequeue(s, t, jobid) ==
    LET u == SRPT_plus_PS_update(s, t) IN
    IF jobid \in u.late THEN [u EXCEPT !.late = @ \ {jobid}]
    ELSE IF u.jobs = <<>> THEN Raise(u, "IndexError")
    ELSE IF jobid = u.jobs[1][2] THEN [u EXCEPT !.jobs = heappop(@)]
    ELSE remove_not_running(u, jobid)

(***************************************************************************)
(* class FSP.  queue is the blist of [virtual remaining, jobid], kept      *)
(* sorted by insort; late is the OrderedDict, as the sequence of its keys. *)
(***************************************************************************)
FSP_init == [queue |-> <<>>, late |-> <<>>, last_t |-> RZero, running |-> {},
             exc |-> ""]

SeqSet(q) == {q[i] : i \in 1..Len(q)}

\* idx of FSP.update: the entries before the first one with vrem > fair_plus_eps
RECURSIVE FSP_done_prefix(_, _, _)
FSP_done_prefix(queue, fair_plus_eps, idx) ==
    IF idx < Len(queue) /\ ~RLess(fair_plus_eps, queue[idx + 1][1])
    THEN FSP_done_prefix(queue, fair_plus_eps, idx + 1)
    ELSE idx

RECURSIVE FSP_mark_late(_, _, _, _), FSP_mark_late_any(_, _, _, _),
          FSP_mark_late_front(_, _, _, _)
\* FSP_mark_late without the test of line 295: every job of queue[:idx]
FSP_mark_late_any(late, queue, running, idx) ==
    IF idx = 0 THEN late
    ELSE LET before == FSP_mark_late_any(late, queue, running, idx - 1)
             jobid == queue[idx][2]
         IN  IF jobid \notin SeqSet(before) THEN Append(before, jobid) ELSE before

\* FSP_mark_late that puts the jobs newly late in front of the older ones
FSP_mark_late_front(late, queue, running, idx) ==
    IF idx = 0 THEN late
    ELSE LET before == FSP_mark_late_front(late, queue, running, idx - 1)
             jobid == queue[idx][2]
         IN  IF jobid \in running /\ jobid \notin SeqSet(before)
             THEN <<jobid>> \o before
             ELSE before

\* late[jobid] = True for the running jobs of queue[:idx], in queue order
FSP_mark_late(late, queue, running, idx) ==
    IF idx = 0 THEN late
    ELSE LET before == FSP_mark_late(late, queue, running, idx - 1)
             jobid == queue[idx][2]
         IN  IF jobid \in running /\ jobid \notin SeqSet(before)
             THEN Append(before, jobid)
             ELSE before

FSP_update(s, t) ==
    LET delta == RSub(t, s.last_t) IN
    IF s.queue # <<>>
    THEN LET fair_share == RDiv(delta, R(Len(s.queue)))
             fair_plus_eps == RAdd(fair_share, eps)
             idx == FSP_done_prefix(s.queue, fair_plus_eps, 0)
             rest == SubSeq(s.queue, idx + 1, Len(s.queue))
         IN  [s EXCEPT !.late = FSP_mark_late(@, s.queue, s.running, idx),
                       !.queue = IF RLess(RZero, fair_share)
                                 THEN [i \in 1..Len(rest) |->
                                          <<RSub(rest[i][1], fair_share), rest[i][2]>>]
                                 ELSE rest,
                       !.last_t = t]
    ELSE [s EXCEPT !.last_t = t]

FSP_enqueue(s, t, jobid, size) ==
    LET u == FSP_update(s, t) IN
    [u EXCEPT !.queue = insort(@, <<size, jobid>>),
              !.running = @ \cup {jobid}]

\* FSP_dequeue with running.discard(jobid): silent on a missing job
FSP_dequeue_discard(s, t, jobid) ==
    [s EXCEPT !.running = @ \ {jobid},
              !.late = SelectSeq(@, LAMBDA j : j # jobid)]

\* FSP_dequeue that leaves the job in late
FSP_dequeue_keeps_late(s, t, jobid) ==
    IF jobid \notin s.running THEN Raise(s, "KeyError")
    ELSE [s EXCEPT !.running = @ \ {jobid}]

\* no update here: the job remains in the virtual scheduler
FSP_dequeue(s, t, jobid) ==
    IF jobid \notin s.running THEN Raise(s, "KeyError")
    ELSE [s EXCEPT !.running = @ \ {jobid},
                   !.late = SelectSeq(@, LAMBDA j : j # jobid)]

\* next(jobid for _, jobid in self.queue if jobid in running)
FSP_first_running(u) ==
    LET present == {i \in 1..Len(u.queue) : u.queue[i][2] \in u.running} IN
    IF present = {}
    THEN [s |-> Raise(u, "StopIteration"), alloc |-> EmptyMap]
    ELSE [s |-> u, alloc |-> EqualShares({u.queue[SetMin(present)][2]}, ROne)]

FSP_schedule(s, t) ==
    LET u == FSP_update(s, t) IN
    IF u.late # <<>> THEN [s |-> u, alloc |-> EqualShares({u.late[1]}, ROne)]
    ELSE IF u.running = {} THEN [s |-> u, alloc |-> EmptyMap]
    ELSE FSP_first_running(u)

(***************************************************************************)
(* class FSP_plus_PS(FSP): only schedule differs                           *)
(***************************************************************************)
FSP_plus_PS_schedule(s, t) ==
    LET u == FSP_update(s, t) IN
    IF u.late # <<>>
    THEN [s |-> u, alloc |-> EqualShares(SeqSet(u.late), RDiv(ROne, R(Len(u.late))))]
    ELSE IF u.running = {} THEN [s |-> u, alloc |-> EmptyMap]
    ELSE FSP_first_running(u)

(***************************************************************************)
(* class LAS.  queue: the sorteddict {attained: {jobid}}; attained:        *)
(* {jobid: attained}; scheduled: {attained: [(service, {jobid})]}.         *)
(***************************************************************************)
LAS_init == [queue |-> [b \in {} |-> {}], attained |-> [j \in {} |-> 0],
             scheduled |-> [b \in {} |-> <<>>], last_t |-> RZero, exc |-> ""]

\* intceil as int(x) + 1
intceil_int_plus_one(x) == (x[1] \div x[2]) + 1

intceil(x) == Ceil(x)

LAS_enqueue(s, t, jobid, size) ==
    [s EXCEPT !.queue = MapSet(@, 0, (IF 0 \in DOMAIN @ THEN @[0] ELSE {}) \cup {jobid}),
              !.attained = MapSet(@, jobid, 0)]

\* LAS_dequeue that always does q.remove(jobid): an emptied bucket stays
LAS_dequeue_keeps_bucket(s, t, jobid) ==
    IF jobid \notin DOMAIN s.attained THEN Raise(s, "KeyError")
    ELSE LET att == s.attained[jobid]
             popped == [s EXCEPT !.attained = MapDel(@, jobid)]
         IN  IF att \notin DOMAIN s.queue THEN Raise(popped, "KeyError")
             ELSE IF jobid \notin s.queue[att] THEN Raise(popped, "KeyError")
             ELSE [popped EXCEPT !.queue[att] = @ \ {jobid}]

LAS_dequeue(s, t, jobid) ==
    IF jobid \notin DOMAIN s.attained THEN Raise(s, "KeyError")
    ELSE LET att == s.attained[jobid]
             popped == [s EXCEPT !.attained = MapDel(@, jobid)]
         IN  IF att \notin DOMAIN s.queue THEN Raise(popped, "KeyError")
             ELSE IF Cardinality(s.queue[att]) = 1
                  THEN [popped EXCEPT !.queue = MapDel(@, att)]
             ELSE IF jobid \notin s.queue[att] THEN Raise(popped, "KeyError")
             ELSE [popped EXCEPT !.queue[att] = @ \ {jobid}]

RECURSIVE UnionOf(_, _)
UnionOf(sub_schedule, i) ==
    IF i = 0 THEN {} ELSE UnionOf(sub_schedule, i - 1) \cup sub_schedule[i][2]

\* LAS_coalesce that only looks for new_att itself
LAS_coalesce_exact(queue, new_att) == new_att

\* next(v for v in [new_att, new_att - 1, new_att + 1] if v in queue)
LAS_coalesce(queue, new_att) ==
    IF new_att \in DOMAIN queue THEN new_att
    ELSE IF new_att - 1 \in DOMAIN queue THEN new_att - 1
    ELSE IF new_att + 1 \in DOMAIN queue THEN new_att + 1
    ELSE new_att

\* for service, jobids in sub_schedule: ... (entries 1..i done)
RECURSIVE LAS_reinsert(_, _, _, _, _)
LAS_reinsert(s, att, i, delta, set_att) ==
    IF i = 0 THEN s
    ELSE LET b == LAS_reinsert(s, att, i - 1, delta, set_att)
             service == b.scheduled[att][i][1]
             jobids == b.scheduled[att][i][2] \cap set_att
             kept == [b EXCEPT !.scheduled[att][i] = <<service, jobids>>]
             new_att == LAS_coalesce(b.queue, att + intceil(RMul(service, R(delta))))
         IN  IF jobids = {} THEN kept
             ELSE [kept EXCEPT
                     !.queue = MapSet(@, new_att,
                                 (IF new_att \in DOMAIN @ THEN @[new_att] ELSE {})
                                    \cup jobids),
                     !.attained = [j \in DOMAIN @ |->
                                     IF j \in jobids THEN new_att ELSE @[j]]]

\* for att, sub_schedule in self.scheduled.items(): ... (keys in todo left)
RECURSIVE LAS_credit(_, _, _, _)
LAS_credit(s, todo, delta, set_att) ==
    IF todo = {} THEN s
    ELSE LET att == SetMin(todo)
             sub_schedule == s.scheduled[att]
             jobids == UnionOf(sub_schedule, Len(sub_schedule))
             removed ==
                 IF att \in DOMAIN s.queue
                 THEN IF s.queue[att] \ jobids = {}
                      THEN [s EXCEPT !.queue = MapDel(@, att)]
                      ELSE [s EXCEPT !.queue[att] = @ \ jobids]
                 ELSE s
         IN  LAS_credit(LAS_reinsert(removed, att, Len(sub_schedule), delta, set_att),
                        todo \ {att}, delta, set_att)

LAS_update(s, t) ==
    LET delta == intceil(RDiv(RSub(t, s.last_t), eps))
        set_att == DOMAIN s.attained
    IN  [LAS_credit(s, DOMAIN s.scheduled, delta, set_att) EXCEPT !.last_t = t]

\* LAS_schedule that serves a single job of the least-attained bucket
LAS_schedule_single(s, t) ==
    LET u == LAS_update(s, t) IN
    IF DOMAIN u.queue = {}
    THEN [s |-> [u EXCEPT !.scheduled = [b \in {} |-> <<>>]], alloc |-> EmptyMap]
    ELSE LET attained == SetMin(DOMAIN u.queue)
             jobids == {SetMin(u.queue[attained])}
         IN  [s |-> [u EXCEPT !.scheduled = [b \in {attained} |-> <<(<<ROne, jobids>>)>>]],
              alloc |-> EqualShares(jobids, ROne)]

LAS_schedule(s, t) ==
    LET u == LAS_update(s, t) IN
    IF DOMAIN u.queue = {}
    THEN [s |-> [u EXCEPT !.scheduled = [b \in {} |-> <<>>]], alloc |-> EmptyMap]
    ELSE LET attained == SetMin(DOMAIN u.queue)
             jobids == u.queue[attained]
             service == RDiv(ROne, R(Cardinality(jobids)))
         IN  [s |-> [u EXCEPT !.scheduled = [b \in {attained} |-> <<(<<service, jobids>>)>>]],
              alloc |-> EqualShares(jobids, service)]

(***************************************************************************)
(* The scheduler_factory and the dispatch of the four methods.             *)
(***************************************************************************)
scheduler_factory(p) ==
    CASE p = "PS" -> PS_init
      [] p = "FIFO" -> FIFO_init
      [] p = "SRPT" -> SRPT_init
      [] p = "SRPT_plus_PS" -> SRPT_plus_PS_init
      [] p = "FSP" -> FSP_init
      [] p = "FSP_plus_PS" -> FSP_init
      [] p = "LAS" -> LAS_init

enqueue(p, s, t, jobid, size) ==
    CASE p = "PS" -> PS_enqueue(s, t, jobid, size)
      [] p = "FIFO" -> FIFO_enqueue(s, t, jobid, size)
      [] p = "SRPT" -> SRPT_enqueue(s, t, jobid, size)
      [] p = "SRPT_plus_PS" -> SRPT_plus_PS_enqueue(s, t, jobid, size)
      [] p = "FSP" -> FSP_enqueue(s, t, jobid, size)
      [] p = "FSP_plus_PS" -> FSP_enqueue(s, t, jobid, size)
      [] p = "LAS" -> LAS_enqueue(s, t, jobid, size)

dequeue(p, s, t, jobid) ==
    CASE p = "PS" -> PS_dequeue(s, t, jobid)
      [] p = "FIFO" -> FIFO_dequeue(s, t, jobid)
      [] p = "SRPT" -> SRPT_dequeue(s, t, jobid)
      [] p = "SRPT_plus_PS" -> SRPT_plus_PS_dequeue(s, t, jobid)
      [] p = "FSP" -> FSP_dequeue(s, t, jobid)
      [] p = "FSP_plus_PS" -> FSP_dequeue(s, t, jobid)
      [] p = "LAS" -> LAS_dequeue(s, t, jobid)

Schedule(p, s, t) ==
    CASE p = "PS" -> PS_schedule(s, t)
      [] p = "FIFO" -> FIFO_schedule(s, t)
      [] p = "SRPT" -> SRPT_schedule(s, t)
      [] p = "SRPT_plus_PS" -> SRPT_plus_PS_schedule(s, t)
      [] p = "FSP" -> FSP_schedule(s, t)
      [] p = "FSP_plus_PS" -> FSP_plus_PS_schedule(s, t)
      [] p = "LAS" -> LAS_schedule(s, t)

(***************************************************************************)
(* src/simulator.py: simulator(jobs, scheduler_factory, size_estimation).  *)
(*                                                                         *)
(* A run is a record d: the arguments (jobs, policy, est), the locals of   *)
(* the generator (events, remaining, schedule, scheduler, last_t), where   *)
(* it stands (pc: "loop", "done" after the final assert, "error" after an  *)
(* exception) and what an observer of the run has seen: out, the yielded   *)
(* (t, jobid) pairs; served, the sum of delta * resources debited to each  *)
(* job; popped, the event of the last iteration (the n-th), with its delta, *)
(* the remaining work of its job after the debit, and called, the          *)
(* scheduler as the enqueue or dequeue of the event left it (before the    *)
(* schedule of line 60).                                                   *)
(*                                                                         *)
(* An event is <<t, kind, data>> with data = <<jobid, size>> for an        *)
(* ARRIVAL and <<jobid>> for a COMPLETE.  events is the heap's content in  *)
(* Python's tuple order: heappop takes events[1], the minimum, which is    *)
(* all the driver reads of the heap's layout.                              *)
(***************************************************************************)
EventLess(e, f) ==
    \/ RLess(e[1], f[1])
    \/ /\ e[1] = f[1]
       /\ \/ e[2] < f[2]
          \/ /\ e[2] = f[2]
             /\ \/ e[3][1] < f[3][1]
                \/ e[2] = ARRIVAL /\ e[3][1] = f[3][1] /\ RLess(e[3][2], f[3][2])

\* heappush(events, e)
RECURSIVE PushEvent(_, _)
PushEvent(events, e) ==
    IF events = <<>> THEN <<e>>
    ELSE IF EventLess(e, events[1]) THEN <<e>> \o events
    ELSE <<events[1]>> \o PushEvent(Tail(events), e)

\* heapify of the list of the events in S
RECURSIVE Heapify(_)
Heapify(S) ==
    IF S = {} THEN <<>>
    ELSE LET e == CHOOSE e \in S : TRUE IN PushEvent(Heapify(S \ {e}), e)

\* size_estimation(size) for the job: the size times the job's error factor
Announced(est, jobid, size) == RMul(size, est[jobid])

\* events = [(t, ARRIVAL, (jobid, size)) for jobid, t, size in jobs]; ...
simulator(jobs, policy, est) ==
    [jobs |-> jobs, policy |-> policy, est |-> est,
     events |-> Heapify({<<j[2], ARRIVAL, <<j[1], j[3]>>>> : j \in jobs}),
     remaining |-> EmptyMap,
     schedule |-> EmptyMap,
     scheduler |-> scheduler_factory(policy),
     last_t |-> RZero,
     out |-> <<>>,
     served |-> EmptyMap,
     popped |-> [n |-> 0, t |-> RZero, kind |-> -1, jobid |-> 0, delta |-> RZero,
                 rem |-> <<>>, called |-> scheduler_factory(policy)],
     pc |-> "loop"]

\* Debit without the share: remaining[jobid] -= delta
Debit_whole_delta(remaining, schedule, delta) ==
    [j \in DOMAIN remaining |->
        IF j \in DOMAIN schedule THEN RSub(remaining[j], delta) ELSE remaining[j]]

\* lines 44-45: for jobid, resources in schedule.items(): remaining[jobid] -= ...
Debit(remaining, schedule, delta) ==
    [j \in DOMAIN remaining |->
        IF j \in DOMAIN schedule
        THEN RSub(remaining[j], RMul(delta, schedule[j]))
        ELSE remaining[j]]

\* NextCompletion without the division by the share: min of (remaining, jobid)
NextCompletion_no_share(remaining, schedule) ==
    LET first == CHOOSE j \in DOMAIN schedule :
                    \A k \in DOMAIN schedule \ {j} :
                        \/ RLess(remaining[j], remaining[k])
                        \/ remaining[j] = remaining[k] /\ j < k
    IN  <<remaining[first], first>>

\* NextCompletion with max in place of min: the last job to finish
NextCompletion_max(remaining, schedule) ==
    LET ratio(j) == RDiv(remaining[j], schedule[j])
        last == CHOOSE j \in DOMAIN schedule :
                    \A k \in DOMAIN schedule \ {j} :
                        \/ RLess(ratio(k), ratio(j))
                        \/ ratio(j) = ratio(k) /\ k < j
    IN  <<ratio(last), last>>

\* the minimum of the pairs (remaining[jobid] / resources, jobid), lines 70-71
NextCompletion(remaining, schedule) ==
    LET ratio(j) == RDiv(remaining[j], schedule[j])
        first == CHOOSE j \in DOMAIN schedule :
                    \A k \in DOMAIN schedule \ {j} :
                        \/ RLess(ratio(j), ratio(k))
                        \/ ratio(j) = ratio(k) /\ j < k
    IN  <<ratio(first), first>>

\* Predict without the test of line 78: the COMPLETE is always pushed
Predict_always_push(events, remaining, schedule, t) ==
    IF DOMAIN remaining = {} THEN events
    ELSE LET nxt == NextCompletion(remaining, schedule)
         IN  PushEvent(events, <<RAdd(t, nxt[1]), COMPLETE, <<nxt[2]>>>>)

\* lines 69-79: the events after the prediction of the next completion
Predict(events, remaining, schedule, t) ==
    IF DOMAIN remaining = {} THEN events
    ELSE LET nxt == NextCompletion(remaining, schedule)
             next_complete == RAdd(t, nxt[1])
         IN  IF events = <<>> \/ RLess(next_complete, events[1][1])
             THEN PushEvent(events, <<next_complete, COMPLETE, <<nxt[2]>>>>)
             ELSE events

\* the exception, if any, that lines 60-71 raise for this allocation
PredictRaises(remaining, schedule) ==
    IF DOMAIN remaining = {} THEN ""
    ELSE IF DOMAIN schedule = {} THEN "ValueError"
    ELSE IF ~(DOMAIN schedule \subseteq DOMAIN remaining) THEN "KeyError"
    ELSE IF \E j \in DOMAIN schedule : schedule[j] = RZero THEN "ZeroDivisionError"
    ELSE ""

\* one iteration of the main loop, lines 38-81
Loop(d) ==
    LET e == Head(d.events)
        events == Tail(d.events)
        t == e[1]
        event_type == e[2]
        jobid == e[3][1]
        delta == RSub(t, d.last_t)
        debitRaises == ~(DOMAIN d.schedule \subseteq DOMAIN d.remaining)
        debited == Debit(d.remaining, d.schedule, delta)
        served == [j \in DOMAIN d.served |->
                     IF j \in DOMAIN d.schedule
                     THEN RAdd(d.served[j], RMul(delta, d.schedule[j]))
                     ELSE d.served[j]]
        absent == event_type = COMPLETE /\ jobid \notin DOMAIN debited
        remaining == IF event_type = ARRIVAL
                     THEN MapSet(debited, jobid, e[3][2])
                     ELSE MapDel(debited, jobid)
        called == IF event_type = ARRIVAL
                  THEN enqueue(d.policy, d.scheduler, t, jobid,
                               Announced(d.est, jobid, e[3][2]))
                  ELSE dequeue(d.policy, d.scheduler, t, jobid)
        res == Schedule(d.policy, called, t)
        popped == [n |-> d.popped.n + 1, t |-> t, kind |-> event_type, jobid |-> jobid,
                   delta |-> delta,
                   rem |-> IF jobid \in DOMAIN debited THEN <<debited[jobid]>> ELSE <<>>,
                   called |-> IF debitRaises \/ absent THEN d.scheduler ELSE called]
        seen == [d EXCEPT !.events = events,
                          !.popped = popped,
                          !.served = IF event_type = ARRIVAL
                                     THEN MapSet(served, jobid, RZero) ELSE served,
                          !.out = IF event_type = COMPLETE
                                  THEN Append(@, <<t, jobid>>) ELSE @]
    IN  IF debitRaises
        THEN [seen EXCEPT !.pc = "error", !.out = d.out, !.served = d.served]
        ELSE IF absent
        THEN [seen EXCEPT !.pc = "error"]
        ELSE IF called.exc # ""
        THEN [seen EXCEPT !.pc = "error", !.remaining = remaining,
                          !.scheduler = called]
        ELSE IF res.s.exc # "" \/ PredictRaises(remaining, res.alloc) # ""
        THEN [seen EXCEPT !.pc = "error", !.remaining = remaining,
                          !.scheduler = res.s, !.schedule = res.alloc]
        ELSE [seen EXCEPT !.remaining = remaining,
                          !.scheduler = res.s,
                          !.schedule = res.alloc,
                          !.events = Predict(events, remaining, res.alloc, t),
                          !.last_t = t]

\* line 83, after the loop: assert not remaining
AfterLoop(d) ==
    [d EXCEPT !.pc = IF DOMAIN d.remaining = {} THEN "done" ELSE "error"]

\* the whole run: the record at which the generator is exhausted or has raised
RECURSIVE Run(_)
Run(d) ==
    IF d.pc # "loop" THEN d
    ELSE IF d.events = <<>> THEN AfterLoop(d)
    ELSE Run(Loop(d))

(***************************************************************************)
(* The runs checked: every policy on every workload of at most MaxJobs     *)
(* jobs whose arrival times are 0..MaxArrival units and whose sizes are    *)
(* 1..MaxSize units, for a unit of one second and for a unit of eps / 2    *)
(* (workloads at the scale of the policies' tolerance), each announced     *)
(* size being the true size times an error factor of the job (1 for the    *)
(* identity estimator), plus the workloads of the documented scenarios     *)
(* (S6 also with the estimator that always reports 1).                     *)
(***************************************************************************)
VARIABLES jobs, policy, est, events, remaining, schedule, scheduler, last_t,
          out, served, popped, pc, call

vars == <<jobs, policy, est, events, remaining, schedule, scheduler, last_t,
          out, served, popped, pc, call>>

\* call: the last method call a client other than the driver made on the
\* scheduler (none in a run of the driver)
NoCall(s, u) ==
    [method |-> "", t |-> RZero, jobid |-> 0, before |-> s, used |-> {}, present |-> {},
     unit |-> u]

Units == {ROne, <<1, 2000000>>}

Factors == {<<1, 2>>, ROne, <<2, 1>>}

\* the policies that read the announced size
SizeBased == {"SRPT", "SRPT_plus_PS", "FSP", "FSP_plus_PS"}

Ids(w) == {x[1] : x \in w}

\* def identity(x): return x
identity(w) == [j \in Ids(w) |-> ROne]

JobSets(u) ==
    UNION {{{<<j, RMul(R(a[j]), u), RMul(R(sz[j]), u)>> : j \in 1..n} :
                a \in [1..n -> 0..MaxArrival], sz \in [1..n -> 1..MaxSize]} :
           n \in 1..MaxJobs}

\* S1: [(A, 0, 2), (B, 0, 1)]
S1 == {<<1, R(0), R(2)>>, <<2, R(0), R(1)>>}

\* S5: [(A, 0, 10), (B, 0, 1), (C, 0, 1)]
S5 == {<<1, R(0), R(10)>>, <<2, R(0), R(1)>>, <<3, R(0), R(1)>>}

\* S6: [(A, 0, 5)], with an estimator that reports size 1
S6 == {<<1, R(0), R(5)>>}

Workloads == UNION {JobSets(u) : u \in Units} \cup {S1, S5, S6}

\* lambda size: 1, as the error factor 1 / size of each job
reports_one(w) == [j \in Ids(w) |-> RInv((CHOOSE x \in w : x[1] = j)[3])]

\* the size_estimation arguments of the runs of policy p on workload w
Estimators(w, p) ==
    IF p \in SizeBased
    THEN [Ids(w) -> Factors] \cup (IF w = S6 THEN {reports_one(w)} ELSE {})
    ELSE {identity(w)}

\* the record of the current state
D == [jobs |-> jobs, policy |-> policy, est |-> est, events |-> events,
      remaining |-> remaining, schedule |-> schedule, scheduler |-> scheduler,
      last_t |-> last_t, out |-> out, served |-> served, popped |-> popped,
      pc |-> pc]

Init ==
    \E w \in Workloads, p \in Policies :
    \E f \in Estimators(w, p) :
        \E d \in {simulator(w, p, f)} :
           /\ jobs = d.jobs /\ policy = d.policy /\ est = d.est
           /\ events = d.events /\ remaining = d.remaining
           /\ schedule = d.schedule /\ scheduler = d.scheduler
           /\ last_t = d.last_t /\ out = d.out /\ served = d.served
           /\ popped = d.popped /\ pc = d.pc
           /\ call = NoCall(d.scheduler, ROne)

Becomes(d) ==
    /\ jobs' = d.jobs /\ policy' = d.policy /\ est' = d.est
    /\ events' = d.events /\ remaining' = d.remaining
    /\ schedule' = d.schedule /\ scheduler' = d.scheduler
    /\ last_t' = d.last_t /\ out' = d.out /\ served' = d.served
    /\ popped' = d.popped /\ pc' = d.pc
    /\ UNCHANGED call

\* an iteration of the main loop that pops an ARRIVAL
Arrival ==
    /\ pc = "loop" /\ events # <<>> /\ events[1][2] = ARRIVAL
    /\ Becomes(Loop(D))

\* an iteration of the main loop that pops a COMPLETE
Complete ==
    /\ pc = "loop" /\ events # <<>> /\ events[1][2] = COMPLETE
    /\ Becomes(Loop(D))

\* the loop ends: assert not remaining
Exit ==
    /\ pc = "loop" /\ events = <<>>
    /\ Becomes(AfterLoop(D))

Next == Arrival \/ Complete \/ Exit

Spec == Init /\ [][Next]_vars

(***************************************************************************)
(* The scheduler interface called directly: a client holds one scheduler   *)
(* of any policy and calls enqueue, dequeue and schedule on it in any      *)
(* order, with unique jobids (1..MaxJobs), announced sizes of 1..MaxSize   *)
(* units and nondecreasing times t in 0..MaxArrival units, the unit being  *)
(* one of Units; it may dequeue a jobid the policy does not hold.  It      *)
(* stops at the first exception.  scheduler is                             *)
(* the object, last_t the time of the last call, schedule the allocation   *)
(* that the last schedule(t) returned, and call the last call: its method, *)
(* its arguments, the object before it, the jobids enqueued so far (used)  *)
(* and those of them not yet dequeued (present), with the client's unit.   *)
(* The locals of the driver stay as in a run without jobs.                 *)
(***************************************************************************)
CallInit ==
    \E p \in Policies, u \in Units :
        LET d == simulator({}, p, identity({})) IN
        /\ jobs = d.jobs /\ policy = d.policy /\ est = d.est
        /\ events = d.events /\ remaining = d.remaining
        /\ schedule = d.schedule /\ scheduler = d.scheduler
        /\ last_t = d.last_t /\ out = d.out /\ served = d.served
        /\ popped = d.popped /\ pc = d.pc
        /\ call = NoCall(d.scheduler, u)

\* the times a next call may carry
CallTimes ==
    {t \in {RAdd(last_t, RMul(R(k), call.unit)) : k \in 0..MaxArrival} :
        RLeq(t, RMul(R(MaxArrival), call.unit))}

\* scheduler.enqueue(t, jobid, size)
CallEnqueue ==
    /\ scheduler.exc = ""
    /\ \E t \in CallTimes, jobid \in (1..MaxJobs) \ call.used, size \in 1..MaxSize :
          /\ scheduler' = enqueue(policy, scheduler, t, jobid, RMul(R(size), call.unit))
          /\ last_t' = t
          /\ call' = [method |-> "enqueue", t |-> t, jobid |-> jobid,
                      before |-> scheduler, used |-> call.used \cup {jobid},
                      present |-> call.present \cup {jobid}, unit |-> call.unit]
    /\ UNCHANGED <<jobs, policy, est, events, remaining, schedule, out, served,
                   popped, pc>>

\* scheduler.dequeue(t, jobid)
CallDequeue ==
    /\ scheduler.exc = ""
    /\ \E t \in CallTimes, jobid \in 1..MaxJobs :
          /\ scheduler' = dequeue(policy, scheduler, t, jobid)
          /\ last_t' = t
          /\ call' = [method |-> "dequeue", t |-> t, jobid |-> jobid,
                      before |-> scheduler, used |-> call.used,
                      present |-> IF dequeue(policy, scheduler, t, jobid).exc = ""
                                  THEN call.present \ {jobid} ELSE call.present,
                      unit |-> call.unit]
    /\ UNCHANGED <<jobs, policy, est, events, remaining, schedule, out, served,
                   popped, pc>>

\* schedule = scheduler.schedule(t)
CallSchedule ==
    /\ scheduler.exc = ""
    /\ \E t \in CallTimes :
          LET res == Schedule(policy, scheduler, t) IN
          /\ scheduler' = res.s
          /\ schedule' = res.alloc
          /\ last_t' = t
          /\ call' = [method |-> "schedule", t |-> t, jobid |-> 0,
                      before |-> scheduler, used |-> call.used,
                      present |-> call.present, unit |-> call.unit]
    /\ UNCHANGED <<jobs, policy, est, events, remaining, out, served, popped, pc>>

CallNext == CallEnqueue \/ CallDequeue \/ CallSchedule

CallSpec == CallInit /\ [][CallNext]_vars

(***************************************************************************)
(* Properties                                                              *)
(***************************************************************************)
Arrival_t(j) == (CHOOSE x \in jobs : x[1] = j)[2]

True_size(j) == (CHOOSE x \in jobs : x[1] = j)[3]

\* the number of COMPLETEs emitted for job j
Emitted(j) == Cardinality({i \in 1..Len(out) : out[i][2] = j})

IdentityEstimator == \A j \in DOMAIN est : est[j] = ROne

\* C1: for every policy and every workload the main loop terminates: it
\* pops at most two events per job (its ARRIVAL and one COMPLETE) and no
\* method raises; no job is ever emitted twice; and when the loop exits
\* (events is empty) every job of the workload has been emitted as a
\* COMPLETE exactly once and remaining is empty.
C1_WorkConservation ==
    /\ pc # "error"
    /\ popped.n <= 2 * Cardinality(jobs)
    /\ \A j \in Ids(jobs) : Emitted(j) <= 1
    /\ events = <<>> =>
          /\ DOMAIN remaining = {}
          /\ \A j \in Ids(jobs) : Emitted(j) = 1

\* a run of two jobs with a misestimated size has ended
C1_Witness ==
    /\ pc = "done" /\ Len(out) = 2 /\ DOMAIN remaining = {}
    /\ \E j \in DOMAIN est : est[j] # ROne

\* C2: after every event the allocation names only admitted jobs, its
\* shares are strictly positive and sum to at most 1, and to exactly 1
\* whenever a job is admitted.
C2_Allocation ==
    /\ DOMAIN schedule \subseteq DOMAIN remaining
    /\ \A j \in DOMAIN schedule : RLess(RZero, schedule[j])
    /\ RLeq(RSum(schedule, DOMAIN schedule), ROne)
    /\ DOMAIN remaining # {} => RSum(schedule, DOMAIN schedule) = ROne

\* two admitted jobs share the capacity
C2_Witness ==
    /\ Cardinality(DOMAIN remaining) = 2
    /\ Cardinality(DOMAIN schedule) = 2
    /\ \A j \in DOMAIN schedule : schedule[j] = <<1, 2>>

\* C3: the popped events have nondecreasing times (delta = t - last_t is
\* never negative) and so have the yielded (completion_time, jobid) pairs.
C3_Nondecreasing ==
    /\ RLeq(RZero, popped.delta)
    /\ RLeq(popped.t, last_t)
    /\ \A i \in 1..Len(out) : \A k \in i..Len(out) : RLeq(out[i][1], out[k][1])

\* a second completion later than the first one has been yielded
C3_Witness ==
    /\ Len(out) = 2 /\ RLess(out[1][1], out[2][1])
    /\ popped.kind = COMPLETE /\ RLess(RZero, popped.delta)

RECURSIVE ArrivalOrder(_)
ArrivalOrder(S) ==
    IF S = {} THEN <<>>
    ELSE LET x == CHOOSE x \in S : \A y \in S \ {x} :
                     RLess(x[2], y[2]) \/ (x[2] = y[2] /\ x[1] < y[1])
         IN  <<x>> \o ArrivalOrder(S \ {x})

RMax(x, y) == IF RLess(x, y) THEN y ELSE x

\* completion_i = max(arrival_i, completion_{i-1}) + true_size_i
RECURSIVE FIFO_expected(_, _)
FIFO_expected(order, i) ==
    IF i = 0 THEN <<>>
    ELSE LET before == FIFO_expected(order, i - 1)
             last == IF i = 1 THEN RZero ELSE before[i - 1][1]
         IN  Append(before, <<RAdd(RMax(order[i][2], last), order[i][3]), order[i][1]>>)

\* C5: under FIFO the jobs complete in the order in which their ARRIVALs
\* are popped, the i-th at max(arrival_i, completion_{i-1}) + true_size_i,
\* so that its sojourn is that time minus arrival_i.
C5_FIFO ==
    policy = "FIFO" =>
        LET order == ArrivalOrder(jobs)
            expected == FIFO_expected(order, Len(order))
        IN  /\ Len(out) <= Len(expected)
            /\ out = SubSeq(expected, 1, Len(out))
            /\ pc = "done" => out = expected

\* a FIFO run has ended in which the second job arrived exactly at the
\* predicted completion of the head
C5_Witness ==
    /\ policy = "FIFO" /\ pc = "done" /\ Len(out) = 2
    /\ Arrival_t(out[2][2]) = out[1][1]

\* the completion time of job j among the yielded pairs o
Completion(o, j) == o[CHOOSE i \in 1..Len(o) : o[i][2] = j][1]

Sojourn(o, j) == RSub(Completion(o, j), Arrival_t(j))

RECURSIVE TotalSojourn(_, _)
TotalSojourn(o, S) ==
    IF S = {} THEN RZero
    ELSE LET j == CHOOSE j \in S : TRUE
         IN  RAdd(Sojourn(o, j), TotalSojourn(o, S \ {j}))

\* the pairs yielded by the driver for the same workload under policy p
OutUnder(p) == Run(simulator(jobs, p, est)).out

\* C6: with the identity estimator, every job's sojourn time under FSP is
\* at most its sojourn time under PS on the same workload.
C6_FSPDominance ==
    (policy = "FSP" /\ IdentityEstimator /\ pc = "done") =>
        \A j \in Ids(jobs) : RLeq(Sojourn(out, j), Sojourn(OutUnder("PS"), j))

\* C7: with the identity estimator, the sum (hence the mean) of the sojourn
\* times under SRPT is at most the one under PS and the one under FIFO on
\* the same workload.
C7_SRPTOptimality ==
    (policy = "SRPT" /\ IdentityEstimator /\ pc = "done") =>
        /\ RLeq(TotalSojourn(out, Ids(jobs)), TotalSojourn(OutUnder("PS"), Ids(jobs)))
        /\ RLeq(TotalSojourn(out, Ids(jobs)), TotalSojourn(OutUnder("FIFO"), Ids(jobs)))

\* an SRPT run has ended in which the job that arrived later, the shorter
\* one, preempted the first and completed before it
C7_Witness ==
    /\ policy = "SRPT" /\ IdentityEstimator /\ pc = "done" /\ Len(out) = 2
    /\ RLess(Arrival_t(out[2][2]), Arrival_t(out[1][2]))
    /\ RLess(Arrival_t(out[1][2]), out[1][1])

\* C8: in every state the driver reaches under LAS, a second schedule(t) at
\* the time of the last one returns the same allocation and leaves queue
\* and attained as they are.
C8_LASIdempotent ==
    (policy = "LAS" /\ popped.n > 0) =>
        LET again == LAS_schedule(scheduler, last_t) IN
        /\ again.alloc = schedule
        /\ again.s.queue = scheduler.queue
        /\ again.s.attained = scheduler.attained
        /\ again.s.exc = ""

\* LAS holds two buckets, the jobs of the lower one being scheduled
C8_Witness ==
    /\ policy = "LAS" /\ popped.n > 0
    /\ Cardinality(DOMAIN scheduler.queue) = 2
    /\ DOMAIN schedule # {}

\* S1 under PS
RunOfS1 == policy = "PS" /\ jobs = S1 /\ pc = "done"

\* C9 as stated: PS on [(A, 0, 2), (B, 0, 1)] yields B at 2 and A at 4.
C9_S1_AsStated == RunOfS1 => out = <<(<<R(2), 2>>), (<<R(4), 1>>)>>

\* C9, amended: PS on [(A, 0, 2), (B, 0, 1)] yields B at 2 and A at 3.
C9_S1 == RunOfS1 => out = <<(<<R(2), 2>>), (<<R(3), 1>>)>>

C9_Witness == RunOfS1 /\ Len(out) = 2

\* S5 under LAS
RunOfS5 == policy = "LAS" /\ jobs = S5

Thirds == [j \in {1, 2, 3} |-> <<1, 3>>]

\* simulated time passes in this state: the next event is later than last_t
TimePasses == events # <<>> /\ RLess(last_t, events[1][1])

\* C10 as stated: LAS on [(A,0,10),(B,0,1),(C,0,1)] completes B and C at
\* t = 2 and A at t = 12; the three jobs have equal shares until B and C
\* complete and A has share 1 afterwards.
C10_S5_AsStated ==
    RunOfS5 =>
        /\ pc = "done" => out = <<(<<R(2), 2>>), (<<R(2), 3>>), (<<R(12), 1>>)>>
        /\ TimePasses => IF Len(out) = 0 THEN schedule = Thirds
                         ELSE schedule = [j \in {1} |-> ROne]

\* C10, amended: B and C complete at t = 3 and A at t = 12; while time
\* passes the three jobs have equal shares until t = 3, when B and C
\* complete, and A has share 1 from then on.
C10_S5 ==
    RunOfS5 =>
        /\ pc = "done" => out = <<(<<R(3), 2>>), (<<R(3), 3>>), (<<R(12), 1>>)>>
        /\ TimePasses => \/ last_t = R(0) /\ Len(out) = 0 /\ schedule = Thirds
                         \/ last_t = R(3) /\ Len(out) = 2
                              /\ schedule = [j \in {1} |-> ROne]

C10_Witness == RunOfS5 /\ pc = "done" /\ Len(out) = 3

\* S6 under SRPT_plus_PS with the estimator that reports 1
RunOfS6 == policy = "SRPT_plus_PS" /\ jobs = S6 /\ est = reports_one(S6)

\* C11: SRPT_plus_PS on [(A, 0, 5)] with announced size 1: no call raises;
\* while A is admitted the allocation is {A: 1} and it is empty otherwise;
\* A is not late while its announced remaining is 1, and the update of the
\* call that follows, at t = 5, finds it below eps and moves A from the
\* heap into late; A's COMPLETE is the only pair yielded, at t = 5, after
\* which heap and late are both empty.
C11_S6 ==
    RunOfS6 =>
        /\ pc # "error"
        /\ schedule = IF DOMAIN remaining # {} THEN [j \in {1} |-> ROne] ELSE EmptyMap
        /\ DOMAIN remaining # {} =>
              /\ scheduler.jobs = <<(<<R(1), 1>>)>> /\ scheduler.late = {}
              /\ events # <<>> /\ events[1] = <<R(5), COMPLETE, <<1>>>>
              /\ LET u == SRPT_plus_PS_update(scheduler, events[1][1]) IN
                 u.late = {1} /\ u.jobs = <<>>
        /\ out = IF popped.n = 2 THEN <<(<<R(5), 1>>)>> ELSE <<>>
        /\ popped.n = 2 =>
              /\ popped.called.jobs = <<>> /\ popped.called.late = {}
              /\ scheduler.jobs = <<>> /\ scheduler.late = {}
        /\ pc = "done" => popped.n = 2

\* the run of S6 has ended, A's COMPLETE having been yielded
C11_Witness == RunOfS6 /\ pc = "done" /\ out = <<(<<R(5), 1>>)>>

\* the jobids that policy p holds in state s
Present(p, s) ==
    CASE p = "PS" -> s.running
      [] p = "FIFO" -> SeqSet(s.jobs)
      [] p = "SRPT" -> {s.jobs[i][2] : i \in 1..Len(s.jobs)}
      [] p = "SRPT_plus_PS" -> {s.jobs[i][2] : i \in 1..Len(s.jobs)} \cup s.late
      [] p \in {"FSP", "FSP_plus_PS"} -> s.running
      [] p = "LAS" -> DOMAIN s.attained

\* C12: for every policy, a dequeue(t, jobid) of a jobid that the policy
\* does not hold (never enqueued, or already dequeued) raises an exception.
C12_MissingDequeue ==
    (call.method = "dequeue" /\ call.jobid \notin Present(policy, call.before)) =>
        scheduler.exc # ""

\* FSP raised on the second dequeue of a job that its virtual queue still holds
C12_Witness ==
    /\ policy = "FSP" /\ call.method = "dequeue" /\ call.jobid \in call.used
    /\ call.jobid \notin call.before.running
    /\ \E i \in 1..Len(call.before.queue) : call.before.queue[i][2] = call.jobid
    /\ scheduler.exc # ""

\* the min-heap order of heapq on h
IsHeap(h) == \A p \in 1..(Len(h) - 1) : ~ItemLess(h[p + 1], h[((p - 1) \div 2) + 1])

\* C13: under SRPT and SRPT_plus_PS, a dequeue(t, jobid) of a job that,
\* after the update of the call, is in the heap and not at its head
\* returns normally, removes exactly that job's entry and leaves a heap.
C13_NonHeadDequeue ==
    (policy \in {"SRPT", "SRPT_plus_PS"} /\ call.method = "dequeue") =>
        LET u == IF policy = "SRPT" THEN SRPT_update(call.before, call.t)
                 ELSE SRPT_plus_PS_update(call.before, call.t)
            at == {i \in 2..Len(u.jobs) : u.jobs[i][2] = call.jobid}
        IN  at # {} =>
              /\ scheduler.exc = ""
              /\ Len(scheduler.jobs) = Len(u.jobs) - 1
              /\ SeqSet(scheduler.jobs) = SeqSet(u.jobs) \ {u.jobs[i] : i \in at}
              /\ IsHeap(scheduler.jobs)

\* the positions of the COMPLETE events in the event queue
Completes == {i \in 1..Len(events) : events[i][2] = COMPLETE}

\* C14: the event queue never holds more than one COMPLETE; a queued
\* COMPLETE is the next event to be popped and its time is strictly smaller
\* than the time of every other queued event.
C14_OneComplete ==
    /\ Cardinality(Completes) <= 1
    /\ Completes # {} =>
          /\ Completes = {1}
          /\ \A i \in 2..Len(events) : RLess(events[1][1], events[i][1])

\* a COMPLETE has been pushed in front of a queued ARRIVAL
C14_Witness ==
    /\ Len(events) >= 2 /\ events[1][2] = COMPLETE /\ events[2][2] = ARRIVAL
    /\ popped.n > 0

\* C15: with the identity estimator, in every run under FSP or FSP_plus_PS
\* late is empty after the enqueue or dequeue and after the schedule of
\* every iteration, and every allocation is a single job with share 1.
C15_NoLateWhenExact ==
    (policy \in {"FSP", "FSP_plus_PS"} /\ IdentityEstimator) =>
        /\ popped.called.late = <<>>
        /\ scheduler.late = <<>>
        /\ Cardinality(DOMAIN schedule) <= 1
        /\ \A j \in DOMAIN schedule : schedule[j] = ROne

\* C16: for FSP and FSP_plus_PS, after every sequence of direct calls, late
\* is a subset of running, every running job is in exactly one of the
\* virtual queue and late, and schedule(t) finds a job whenever running is
\* nonempty (its search of the virtual queue never ends in StopIteration).
C16_FSPPartition ==
    policy \in {"FSP", "FSP_plus_PS"} =>
        LET queued == {scheduler.queue[i][2] : i \in 1..Len(scheduler.queue)}
            late == SeqSet(scheduler.late)
        IN  /\ late \subseteq scheduler.running
            /\ \A j \in scheduler.running : (j \in queued) # (j \in late)
            /\ scheduler.exc # "StopIteration"
            /\ (call.method = "schedule" /\ scheduler.running # {}) =>
                  DOMAIN schedule # {}

\* a schedule(t) left one running job in late and the other in the
\* virtual queue
C16_Witness ==
    /\ policy \in {"FSP", "FSP_plus_PS"} /\ call.method = "schedule"
    /\ scheduler.late # <<>> /\ Cardinality(scheduler.running) = 2
    /\ \E i \in 1..Len(scheduler.queue) : scheduler.queue[i][2] \in scheduler.running

\* job J is late, no job still in late entered it before J, and J is the
\* job the last schedule(t) returned
OldestLateServed(J) ==
    /\ scheduler.late # <<>> /\ scheduler.late[1] = J
    /\ schedule = [j \in {J} |-> ROne]

\* C17: under FSP, in every step of a sequence of direct calls: the jobs
\* that stay in late keep their order and precede the jobs that enter it;
\* a schedule(t) that finds late nonempty returns share 1 for its first
\* job, the one that entered earliest; and once a late job J is served it
\* remains the job served, whatever is enqueued or becomes late, until a
\* dequeue of J.
C17_OldestLate ==
    [][policy = "FSP" =>
        /\ LET stay == SelectSeq(scheduler.late,
                                 LAMBDA j : j \in SeqSet(scheduler'.late))
           IN  /\ Len(stay) <= Len(scheduler'.late)
               /\ SubSeq(scheduler'.late, 1, Len(stay)) = stay
        /\ (call'.method = "schedule" /\ scheduler'.late # <<>>) =>
              schedule' = [j \in {scheduler'.late[1]} |-> ROne]
        /\ \A J \in 1..MaxJobs :
              (OldestLateServed(J) /\ ~(call'.method = "dequeue" /\ call'.jobid = J)) =>
                  OldestLateServed(J)']_vars

\* a schedule(t) whose update made a second job late still serves the
\* first one
C17_Witness ==
    /\ policy = "FSP" /\ call.method = "schedule"
    /\ Len(scheduler.late) = 2 /\ call.before.late = <<scheduler.late[1]>>
    /\ schedule = [j \in {scheduler.late[1]} |-> ROne]

\* C18: for LAS, after every direct call: the keys of attained and the
\* union of the buckets are the jobs enqueued and not yet dequeued; every
\* such job is in exactly one bucket, the one attained gives for it
\* (attained[j] = b iff j is in queue[b]); and no bucket is empty.
C18_LASBuckets ==
    policy = "LAS" =>
        LET queue == scheduler.queue
            attained == scheduler.attained
        IN  /\ DOMAIN attained = call.present
            /\ UNION {queue[b] : b \in DOMAIN queue} = call.present
            /\ \A b \in DOMAIN queue : queue[b] # {}
            /\ \A j \in call.present :
                  /\ Cardinality({b \in DOMAIN queue : j \in queue[b]}) = 1
                  /\ \A b \in DOMAIN queue : (attained[j] = b) <=> (j \in queue[b])

\* an update has coalesced the bucket of the job served, after one unit
\* of eps / 2, with bucket 0, where a job was enqueued meanwhile
C18_Witness ==
    /\ policy = "LAS" /\ call.method = "schedule" /\ call.unit # ROne
    /\ RLess(call.before.last_t, call.t)
    /\ DOMAIN call.before.queue = {0} /\ Cardinality(call.before.queue[0]) = 2
    /\ DOMAIN call.before.scheduled = {0}
    /\ Cardinality(call.before.scheduled[0][1][2]) = 1
    /\ DOMAIN scheduler.queue = {0} /\ Cardinality(scheduler.queue[0]) = 2

\* C19: under LAS, after the schedule(t) of every iteration of the driver
\* no two buckets of queue have keys that differ by exactly 1.
C19_NoAdjacentBuckets ==
    policy = "LAS" =>
        \A b \in DOMAIN scheduler.queue : b + 1 \notin DOMAIN scheduler.queue

\* a job arrived within eps of service of the job being served: enqueue
\* put it in bucket 0 and the update of schedule(t), which credits the
\* other job with one bucket, left both in bucket 0
C19_Witness ==
    /\ policy = "LAS" /\ popped.kind = ARRIVAL
    /\ RLess(RZero, popped.delta) /\ RLeq(popped.delta, eps)
    /\ DOMAIN popped.called.scheduled = {0}
    /\ DOMAIN scheduler.queue = {0} /\ Cardinality(scheduler.queue[0]) = 2

\* the heap of s holds one entry for each admitted job, whose estimated
\* remaining is the announced size minus the service delivered to the job:
\* announced_size - (true_size - remaining[jobid])
StoredIsAnnouncedLessService(s) ==
    /\ Len(s.jobs) = Cardinality(DOMAIN remaining)
    /\ \A i \in 1..Len(s.jobs) :
          LET jobid == s.jobs[i][2] IN
          /\ jobid \in DOMAIN remaining
          /\ s.jobs[i][1] = RSub(Announced(est, jobid, True_size(jobid)),
                                 RSub(True_size(jobid), remaining[jobid]))
          /\ IdentityEstimator => s.jobs[i][1] = remaining[jobid]

\* the heap after the enqueue or dequeue of the last iteration and the
\* heap after its schedule
StoredAfterEveryUpdate ==
    /\ StoredIsAnnouncedLessService(popped.called)
    /\ StoredIsAnnouncedLessService(scheduler)

\* C20: in every iteration of the driver under SRPT, after the enqueue or
\* dequeue and after the schedule, each entry of the heap is the announced
\* size of its job minus the service delivered to it (the driver's
\* remaining[jobid] with the identity estimator), and the entries that were
\* not the head at the previous schedule are the same as before.
C20_SRPTStored ==
    /\ [](policy = "SRPT" => StoredAfterEveryUpdate)
    /\ [][policy = "SRPT" =>
            \A i \in 2..Len(scheduler.jobs) :
                /\ \E k \in 1..Len(popped'.called.jobs) :
                      popped'.called.jobs[k] = scheduler.jobs[i]
                /\ \E k \in 1..Len(scheduler'.jobs) :
                      scheduler'.jobs[k] = scheduler.jobs[i]]_vars

\* the head, whose size was announced wrongly, has been debited while
\* another job waited in the heap
C20_Witness ==
    /\ policy = "SRPT" /\ ~IdentityEstimator /\ Len(scheduler.jobs) = 2
    /\ popped.kind = ARRIVAL /\ RLess(RZero, popped.delta)
    /\ RLess(remaining[scheduler.jobs[1][2]], True_size(scheduler.jobs[1][2]))
    /\ scheduler.jobs[1][1] # remaining[scheduler.jobs[1][2]]

C22_NoZeroWhileTimePasses ==
    (pc = "loop" /\ events # <<>> /\ RLess(last_t, events[1][1])) =>
        \A j \in DOMAIN remaining : RLess(RZero, remaining[j])

\* the scheduler after the update(t) of the dequeue that the next iteration
\* makes, when the next event is a COMPLETE
UpdatedForDequeue ==
    IF policy = "SRPT" THEN SRPT_update(scheduler, events[1][1])
    ELSE SRPT_plus_PS_update(scheduler, events[1][1])

\* C23: in every driver run under SRPT each dequeue(t, jobid) targets the job
\* at the heap head after update(t), and under SRPT_plus_PS a job that is in
\* late or at the heap head after update(t); every dequeue the driver has
\* made returned without raising, so the linear search for a job that is
\* not at the head is never executed.
C23_DequeueTargetsHead ==
    policy \in {"SRPT", "SRPT_plus_PS"} =>
        /\ (pc = "loop" /\ events # <<>> /\ events[1][2] = COMPLETE) =>
              LET u == UpdatedForDequeue
                  jobid == events[1][3][1]
              IN  \/ policy = "SRPT_plus_PS" /\ jobid \in u.late
                  \/ u.jobs # <<>> /\ u.jobs[1][2] = jobid
        /\ popped.kind = COMPLETE => popped.called.exc = ""

\* the next event is the COMPLETE of a late job of SRPT_plus_PS while the
\* heap holds another job: the dequeue is of a job that is not at the head
C23_Witness ==
    /\ policy = "SRPT_plus_PS" /\ pc = "loop"
    /\ events # <<>> /\ events[1][2] = COMPLETE
    /\ events[1][3][1] \in UpdatedForDequeue.late
    /\ UpdatedForDequeue.jobs # <<>>
    /\ UpdatedForDequeue.jobs[1][2] # events[1][3][1]

====
